---- MODULE Spec2Model ----
(***************************************************************************)
(* LS-8 emulator (src/ls8/cpu.py): the CPU class as a state machine.       *)
(*                                                                         *)
(* The registers and the memory are Python bytearrays: a store of a value  *)
(* outside 0..255 raises ValueError, an index outside the array raises     *)
(* IndexError, and neither changes the array.  PC is a plain Python int.   *)
(* An exception leaves run() and ends the program; the fields keep what    *)
(* the statements before the raise had already assigned.                   *)
(***************************************************************************)
EXTENDS Integers, Sequences, FiniteSets, TLC

\* ---------------------------------------------------------------- opcodes
HLT == \b00000001
LDI == \b10000010
PRN == \b01000111

MUL == \b10100010
DIV == \b10100011
ADD == \b10100000
SUB == \b10100001
MOD == \b10100100
CMP == \b10100111

POP == \b01000110
PUSH == \b01000101

CALL == \b01010000
RET == \b00010001

JMP == \b01010100
JEQ == \b01010101
JNE == \b01010110

AND == \b10101000
OR == \b10101010
XOR == \b10101011
NOT == \b01101001
SHL == \b10101100
SHR == \b10101101

\* stack pointer reserved in register index 7
SP == 7

\* ------------------------------------------------------ sizes of the state
NumRegs == 8
RamSize == 256
ByteLimit == 256
SPInit == 244

RegIdx == 0 .. (NumRegs - 1)
Addr == 0 .. (RamSize - 1)
Byte == 0 .. (ByteLimit - 1)

\* the keys of the branch table
branch ==
    { HLT, LDI, PRN, POP, PUSH, CALL, RET, ADD, SUB, MUL, DIV, MOD, CMP,
      JMP, JEQ, JNE, AND, OR, XOR, NOT, SHL, SHR }

VARIABLES
    reg,      \* self.reg: the 8 registers
    ram,      \* self.ram: the 256 memory cells
    PC,       \* self.PC
    IR,       \* self.IR
    op_a,     \* run()'s local op_a
    op_b,     \* run()'s local op_b
    FL,       \* self.FL
    out,      \* what print() has written, in order
    status,   \* "NEW" (constructed), "RUNNING", "HALTED", "ERROR"
    err,      \* the exception that ended the run, or "none"
    pos,      \* where run() stands: "load", "fetch", "test", "end"
    obs       \* history of the instructions executed (observer only)

vars == << reg, ram, PC, IR, op_a, op_b, FL, out, status, err, pos, obs >>

\* ------------------------------------------------------- the machine value
\* The fields a handler can touch, as one value handed from statement to
\* statement; err is the exception raised so far.
Cur ==
    [ reg |-> reg, ram |-> ram, PC |-> PC, FL |-> FL, out |-> out,
      err |-> "none" ]

Raise(m, e) == IF m.err = "none" THEN [m EXCEPT !.err = e] ELSE m

Failed(m) == m.err # "none"

\* self.reg[i] = v on a bytearray(8)
reg_store(m, i, v) ==
    IF Failed(m) THEN m
    ELSE IF v \notin Byte THEN Raise(m, "ValueError")
    ELSE IF i \notin RegIdx THEN Raise(m, "IndexError")
    ELSE [m EXCEPT !.reg[i] = v]

\* ------------------------------------------------------------------ memory
ram_write(m, value, address) ==
    IF Failed(m) THEN m
    ELSE IF value \notin Byte THEN Raise(m, "ValueError")
    ELSE IF address \notin Addr THEN Raise(m, "IndexError")
    ELSE [m EXCEPT !.ram[address] = value]

\* ram_read(address) raises IndexError outside the bytearray
ram_read_ok(address) == address \in Addr

\* --------------------------------------------------------------- handlers
\* ldi() as it would be with its two arguments exchanged
ldi_swapped(m, reg_num, value) == reg_store(m, value, reg_num)

ldi(m, reg_num, value) == reg_store(m, reg_num, value)

\* prn() as it would be if it printed its operand instead of the register
prn_operand(m, reg_num) ==
    IF Failed(m) THEN m
    ELSE IF reg_num \notin RegIdx THEN Raise(m, "IndexError")
    ELSE [m EXCEPT !.out = Append(@, reg_num)]

prn(m, reg_num) ==
    IF Failed(m) THEN m
    ELSE IF reg_num \notin RegIdx THEN Raise(m, "IndexError")
    ELSE [m EXCEPT !.out = Append(@, m.reg[reg_num])]

\* pop() as it would be without the increment of SP
pop_keeps_sp(m, reg_num) ==
    IF Failed(m) THEN m
    ELSE reg_store(m, reg_num, m.ram[m.reg[SP]])

\* pop() as it would be with the increment before the read: the old top of
\* the stack is read after SP has moved
pop_increment_first(m, reg_num) ==
    IF Failed(m) THEN m
    ELSE LET m1 == reg_store(m, SP, m.reg[SP] + 1)
         IN  IF Failed(m1) THEN m1
             ELSE reg_store(m1, reg_num, m1.ram[m.reg[SP]])

\* reg[reg_num] = ram_read(reg[SP]); reg[SP] += 1
pop(m, reg_num) ==
    IF Failed(m) THEN m
    ELSE LET m1 == reg_store(m, reg_num, m.ram[m.reg[SP]])
         IN  IF Failed(m1) THEN m1
             ELSE reg_store(m1, SP, m1.reg[SP] + 1)

\* push() as it would be with the write before the decrement
push_write_first(m, reg_num) ==
    IF Failed(m) THEN m
    ELSE IF reg_num \notin RegIdx THEN Raise(m, "IndexError")
    ELSE LET m1 == ram_write(m, m.reg[reg_num], m.reg[SP])
         IN  reg_store(m1, SP, m1.reg[SP] - 1)

\* reg[SP] -= 1; ram_write(reg[reg_num], reg[SP])
push(m, reg_num) ==
    IF Failed(m) THEN m
    ELSE LET m1 == reg_store(m, SP, m.reg[SP] - 1)
         IN  IF Failed(m1) THEN m1
             ELSE IF reg_num \notin RegIdx THEN Raise(m1, "IndexError")
             ELSE ram_write(m1, m1.reg[reg_num], m1.reg[SP])

\* ldi(4, PC + 2); push(4); PC = reg[reg_num]
call(m, reg_num) ==
    LET m1 == push(ldi(m, 4, m.PC + 2), 4)
    IN  IF Failed(m1) THEN m1
        ELSE IF reg_num \notin RegIdx THEN Raise(m1, "IndexError")
        ELSE [m1 EXCEPT !.PC = m1.reg[reg_num]]

\* pop(4); PC = reg[4]
ret(m) ==
    LET m1 == pop(m, 4)
    IN  IF Failed(m1) THEN m1 ELSE [m1 EXCEPT !.PC = m1.reg[4]]

\* ---------------------------------------------------------------------- ALU
\* Python values of different types never compare equal: alu()'s op is the
\* string its caller passes, and two of its branches test it against the
\* integer opcodes SHL and SHR.
PyStr(s) == << "str", s >>
PyInt(n) == << "int", n >>
PyEq(x, y) == x[1] = y[1] /\ x[2] = y[2]

RECURSIVE BitAnd(_, _)
BitAnd(x, y) ==
    IF x = 0 \/ y = 0 THEN 0
    ELSE (x % 2) * (y % 2) + 2 * BitAnd(x \div 2, y \div 2)

RECURSIVE BitOr(_, _)
BitOr(x, y) ==
    IF x = 0 THEN y
    ELSE IF y = 0 THEN x
    ELSE (IF x % 2 = 1 \/ y % 2 = 1 THEN 1 ELSE 0)
         + 2 * BitOr(x \div 2, y \div 2)

RECURSIVE BitXor(_, _)
BitXor(x, y) ==
    IF x = 0 THEN y
    ELSE IF y = 0 THEN x
    ELSE ((x + y) % 2) + 2 * BitXor(x \div 2, y \div 2)

RECURSIVE Pow2(_)
Pow2(n) == IF n = 0 THEN 1 ELSE 2 * Pow2(n - 1)

\* self.reg[reg_a] <op>= self.reg[reg_b]: both loads, the operation, the store
BinOp(kind, x, y) ==
    CASE kind = "ADD" -> x + y
      [] kind = "SUB" -> x - y
      [] kind = "MUL" -> x * y
      [] kind = "DIV" -> x \div y
      [] kind = "MOD" -> x % y
      [] kind = "AND" -> BitAnd(x, y)
      [] kind = "OR" -> BitOr(x, y)
      [] kind = "XOR" -> BitXor(x, y)

\* the augmented assignment as it would be if it also raised the equal flag
aug_assign_sets_flag(m, kind, reg_a, reg_b) ==
    IF reg_a \notin RegIdx \/ reg_b \notin RegIdx THEN Raise(m, "IndexError")
    ELSE IF kind \in {"DIV", "MOD"} /\ m.reg[reg_b] = 0
         THEN Raise(m, "ZeroDivisionError")
    ELSE [reg_store(m, reg_a, BinOp(kind, m.reg[reg_a], m.reg[reg_b]))
            EXCEPT !.FL = 1]

\* the augmented assignment as it would be if a zero divisor stored 255
\* instead of raising
aug_assign_div_saturates(m, kind, reg_a, reg_b) ==
    IF reg_a \notin RegIdx \/ reg_b \notin RegIdx THEN Raise(m, "IndexError")
    ELSE IF kind \in {"DIV", "MOD"} /\ m.reg[reg_b] = 0
         THEN reg_store(m, reg_a, 255)
    ELSE reg_store(m, reg_a, BinOp(kind, m.reg[reg_a], m.reg[reg_b]))

aug_assign(m, kind, reg_a, reg_b) ==
    IF reg_a \notin RegIdx \/ reg_b \notin RegIdx THEN Raise(m, "IndexError")
    ELSE IF kind \in {"DIV", "MOD"} /\ m.reg[reg_b] = 0
         THEN Raise(m, "ZeroDivisionError")
    ELSE reg_store(m, reg_a, BinOp(kind, m.reg[reg_a], m.reg[reg_b]))

\* the CMP branch as it would be with the less and greater flags exchanged
alu_cmp_swapped(m, reg_a, reg_b) ==
    IF reg_a \notin RegIdx \/ reg_b \notin RegIdx THEN Raise(m, "IndexError")
    ELSE IF m.reg[reg_a] < m.reg[reg_b] THEN [m EXCEPT !.FL = 2]
    ELSE IF m.reg[reg_a] > m.reg[reg_b] THEN [m EXCEPT !.FL = 4]
    ELSE IF m.reg[reg_a] = m.reg[reg_b] THEN [m EXCEPT !.FL = 1]
    ELSE m

\* the CMP branch: FL is 4 (less), 2 (greater) or 1 (equal)
alu_cmp(m, reg_a, reg_b) ==
    IF reg_a \notin RegIdx \/ reg_b \notin RegIdx THEN Raise(m, "IndexError")
    ELSE IF m.reg[reg_a] < m.reg[reg_b] THEN [m EXCEPT !.FL = 4]
    ELSE IF m.reg[reg_a] > m.reg[reg_b] THEN [m EXCEPT !.FL = 2]
    ELSE IF m.reg[reg_a] = m.reg[reg_b] THEN [m EXCEPT !.FL = 1]
    ELSE m

\* the NOT branch: reg[reg_a] = ~reg[reg_a], and ~v is -v - 1
alu_not(m, reg_a) ==
    IF reg_a \notin RegIdx THEN Raise(m, "IndexError")
    ELSE reg_store(m, reg_a, 0 - m.reg[reg_a] - 1)

\* the shift branches: reg[reg_a] shifted by reg_b, the operand itself
alu_shift(m, left, reg_a, reg_b) ==
    IF reg_a \notin RegIdx THEN Raise(m, "IndexError")
    ELSE reg_store(m, reg_a,
                   IF left THEN m.reg[reg_a] * Pow2(reg_b)
                   ELSE m.reg[reg_a] \div Pow2(reg_b))

alu(m, op, reg_a, reg_b) ==
    IF Failed(m) THEN m
    ELSE IF PyEq(op, PyStr("ADD")) THEN aug_assign(m, "ADD", reg_a, reg_b)
    ELSE IF PyEq(op, PyStr("SUB")) THEN aug_assign(m, "SUB", reg_a, reg_b)
    ELSE IF PyEq(op, PyStr("MUL")) THEN aug_assign(m, "MUL", reg_a, reg_b)
    ELSE IF PyEq(op, PyStr("DIV")) THEN aug_assign(m, "DIV", reg_a, reg_b)
    ELSE IF PyEq(op, PyStr("MOD")) THEN aug_assign(m, "MOD", reg_a, reg_b)
    ELSE IF PyEq(op, PyStr("CMP")) THEN alu_cmp(m, reg_a, reg_b)
    ELSE IF PyEq(op, PyStr("AND")) THEN aug_assign(m, "AND", reg_a, reg_b)
    ELSE IF PyEq(op, PyStr("OR")) THEN aug_assign(m, "OR", reg_a, reg_b)
    ELSE IF PyEq(op, PyStr("XOR")) THEN aug_assign(m, "XOR", reg_a, reg_b)
    ELSE IF PyEq(op, PyStr("NOT")) THEN alu_not(m, reg_a)
    ELSE IF PyEq(op, PyInt(SHL)) THEN alu_shift(m, TRUE, reg_a, reg_b)
    ELSE IF PyEq(op, PyInt(SHR)) THEN alu_shift(m, FALSE, reg_a, reg_b)
    ELSE Raise(m, "Exception: Unsupported ALU operation")

add(m, reg_a, reg_b) == alu(m, PyStr("ADD"), reg_a, reg_b)
sub(m, reg_a, reg_b) == alu(m, PyStr("SUB"), reg_a, reg_b)
mul(m, reg_a, reg_b) == alu(m, PyStr("MUL"), reg_a, reg_b)
div(m, reg_a, reg_b) == alu(m, PyStr("DIV"), reg_a, reg_b)
mod(m, reg_a, reg_b) == alu(m, PyStr("MOD"), reg_a, reg_b)
cmp(m, reg_a, reg_b) == alu(m, PyStr("CMP"), reg_a, reg_b)
and_bit(m, reg_a, reg_b) == alu(m, PyStr("AND"), reg_a, reg_b)
or_bit(m, reg_a, reg_b) == alu(m, PyStr("OR"), reg_a, reg_b)
xor(m, reg_a, reg_b) == alu(m, PyStr("XOR"), reg_a, reg_b)
shl(m, reg_a, reg_b) == alu(m, PyStr("SHL"), reg_a, reg_b)
shr(m, reg_a, reg_b) == alu(m, PyStr("SHR"), reg_a, reg_b)

\* alu("NOT", reg_num): alu() has three required parameters and gets two, so
\* the call raises TypeError before alu()'s body runs
not_bit(m, reg_num) == Raise(m, "TypeError")

\* ------------------------------------------------------------------- jumps
jmp(m, reg_num) ==
    IF reg_num \notin RegIdx THEN Raise(m, "IndexError")
    ELSE [m EXCEPT !.PC = m.reg[reg_num]]

\* jeq() as it would be if it tested FL for any set bit
jeq_any_flag(m, reg_num) ==
    IF m.FL # 0
    THEN IF reg_num \notin RegIdx THEN Raise(m, "IndexError")
         ELSE [m EXCEPT !.PC = m.reg[reg_num]]
    ELSE [m EXCEPT !.PC = @ + 2]

jeq(m, reg_num) ==
    IF m.FL = 1
    THEN IF reg_num \notin RegIdx THEN Raise(m, "IndexError")
         ELSE [m EXCEPT !.PC = m.reg[reg_num]]
    ELSE [m EXCEPT !.PC = @ + 2]

jne(m, reg_num) ==
    IF m.FL # 1
    THEN IF reg_num \notin RegIdx THEN Raise(m, "IndexError")
         ELSE [m EXCEPT !.PC = m.reg[reg_num]]
    ELSE [m EXCEPT !.PC = @ + 2]

\* ------------------------------------------------------------ the observer
\* What the last two executed instructions saw before they ran, and the
\* current run of pushes and mirrored pops.  Nothing the machine does reads
\* obs.
NoSnap ==
    [ ir |-> 0 - 1, a |-> 0, b |-> 0, pc |-> 0, reg |-> [i \in RegIdx |-> 0],
      fl |-> 0, cell |-> 0 - 1, ok |-> FALSE ]

Snap(m) ==
    [ ir |-> IR, a |-> op_a, b |-> op_b, pc |-> PC, reg |-> reg, fl |-> FL,
      cell |-> IF op_a \in RegIdx THEN ram[reg[op_a]] ELSE 0 - 1,
      ok |-> ~Failed(m) ]

ObsInit ==
    [ last |-> NoSnap, before |-> NoSnap, base |-> [i \in RegIdx |-> 0],
      pushed |-> << >>, popping |-> FALSE, balanced |-> FALSE, depth |-> 0 ]

Front(s) == SubSeq(s, 1, Len(s) - 1)

Observe(m) ==
    LET done == ~Failed(m)
        fresh == obs.popping \/ obs.pushed = << >>
        isPush == IR = PUSH /\ done
        isPop == /\ IR = POP
                 /\ done
                 /\ obs.pushed # << >>
                 /\ obs.pushed[Len(obs.pushed)] = op_a
    IN  [ last |-> Snap(m),
          before |-> obs.last,
          base |-> IF isPush /\ fresh THEN reg ELSE obs.base,
          pushed |-> IF isPush
                     THEN IF fresh THEN << op_a >> ELSE Append(obs.pushed, op_a)
                     ELSE IF isPop THEN Front(obs.pushed)
                     ELSE << >>,
          popping |-> isPop /\ Len(obs.pushed) > 1,
          balanced |-> isPop /\ Len(obs.pushed) = 1,
          depth |-> IF isPush
                    THEN IF fresh THEN 1 ELSE Len(obs.pushed) + 1
                    ELSE IF isPop THEN obs.depth
                    ELSE 0 ]

\* ---------------------------------------------------------------- programs
\* The byte programs load() is given: a file of at most 256 lines, one byte
\* a line.  Prog(code, at, tail) is code, then zero bytes up to address at,
\* then tail, cut at the end of memory.
Prog(code, at, tail) ==
    LET n == IF at + Len(tail) > RamSize THEN RamSize ELSE at + Len(tail)
        len == IF n > Len(code) THEN n ELSE Len(code)
    IN  [ i \in 1 .. len |->
            IF i <= Len(code) THEN code[i]
            ELSE IF i > at /\ i - at <= Len(tail) THEN tail[i - at]
            ELSE 0 ]

MaxPush == 2

Vals == {0, 1, 2, 3, 5, 127, 128, 254, 255}

ALU2Ops == {ADD, SUB, MUL, DIV, MOD, CMP, AND, OR, XOR, SHL, SHR}

RegPairs == { << 0, 1 >>, << 1, 0 >>, << 0, 0 >>, << 0, 8 >>, << 9, 1 >> }

ProgALU ==
    { << LDI, 0, a, LDI, 1, b, op, p[1], p[2], PRN, 0, HLT >> :
        op \in ALU2Ops, p \in RegPairs, a \in Vals, b \in Vals }

JumpOps == {JMP, JEQ, JNE}

Targets == {40, 253, 254, 255}

Tails == { << HLT >>, << 0 >>, << LDI, 0, 5 >> }

CmpPairs == { << 3, 5 >>, << 5, 3 >>, << 3, 3 >> }

ProgJump ==
    { Prog(<< LDI, 2, t, LDI, 0, c[1], LDI, 1, c[2], CMP, 0, 1, j, x, HLT >>,
           t, tail) :
        c \in CmpPairs, x \in {2, 9}, t \in Targets, j \in JumpOps,
        tail \in Tails }
    \cup
    { Prog(<< LDI, 2, t, j, x, HLT >>, t, tail) :
        x \in {2, 9}, t \in Targets, j \in JumpOps, tail \in Tails }

CallTargets == {40, 243}

ProgCall ==
    { Prog(<< LDI, SP, s, LDI, IF x \in RegIdx THEN x ELSE 0, t, CALL, x,
              PRN, 0, HLT >>, t, tail) :
        s \in {SPInit, 0, 1, 255, 41}, x \in {0, 4, 6, SP, 9},
        t \in CallTargets,
        tail \in { << RET >>, << PRN, 0, RET >>, << HLT >> } }
    \cup
    { << LDI, SP, s, RET, HLT >> : s \in {SPInit, 255} }

StackRegs == {0, 1, 4, SP}

RECURSIVE RegSeqs(_)
RegSeqs(n) ==
    IF n = 0 THEN { << >> }
    ELSE { Append(s, r) : s \in RegSeqs(n - 1), r \in StackRegs }

RECURSIVE Pushes(_)
Pushes(rs) ==
    IF rs = << >> THEN << >>
    ELSE << PUSH, rs[1] >> \o Pushes(Tail(rs))

RECURSIVE Pops(_)
Pops(rs) ==
    IF rs = << >> THEN << >>
    ELSE Pops(Tail(rs)) \o << POP, rs[1] >>

ProgStack ==
    { << LDI, 0, c[1], LDI, 1, c[2], LDI, SP, s >> \o Pushes(rs) \o Pops(rs)
        \o << HLT >> :
        c \in { << 3, 5 >>, << 255, 0 >> }, s \in {SPInit, 30, 1, 0},
        rs \in UNION { RegSeqs(n) : n \in 1 .. MaxPush } }

ProgUnary ==
    { << LDI, SP, s, LDI, 0, a, op, x, HLT >> :
        s \in {SPInit, 0, 255}, a \in Vals, op \in {PRN, POP, PUSH, NOT},
        x \in {0, SP, 8} }

UnknownBytes == {0, 16, 64, 128, 192, 255}

ProgFixed ==
    { << LDI, 0, 8, PRN, 0, HLT >>,
      << LDI, 0, 5, LDI, 1, 6, MUL, 0, 1, PRN, 0, HLT >>,
      << HLT >> }
    \cup { << x >> : x \in UnknownBytes }

Programs ==
    ProgALU \cup ProgJump \cup ProgCall \cup ProgStack \cup ProgUnary
        \cup ProgFixed

\* ------------------------------------------------------------ construction
Init ==
    /\ reg = [i \in RegIdx |-> IF i = SP THEN SPInit ELSE 0]
    /\ ram = [a \in Addr |-> 0]
    /\ PC = 0
    /\ IR = 0
    /\ op_a = 0
    /\ op_b = 0
    /\ FL = 0
    /\ out = << >>
    /\ status = "NEW"
    /\ err = "none"
    /\ pos = "load"
    /\ obs = ObsInit

\* -------------------------------------------------------------------- load
load(program) ==
    [a \in Addr |-> IF a < Len(program) THEN program[a + 1] ELSE ram[a]]

Load ==
    /\ pos = "load"
    /\ \E program \in Programs : ram' = load(program)
    /\ status' = "RUNNING"
    /\ pos' = "fetch"
    /\ UNCHANGED << reg, PC, IR, op_a, op_b, FL, out, err, obs >>

\* --------------------------------------------------------------------- run
nums(ir) == (ir \div 64) % 4
\* pc_set as it would be with the mask one bit off (0b00100000)
pc_set_bit5(ir) == (ir \div 32) % 2

pc_set(ir) == (ir \div 16) % 2

\* IR = ram_read(PC); op_a = ram_read(PC + 1); op_b = ram_read(PC + 2)
Fetch ==
    /\ pos = "fetch"
    /\ status = "RUNNING"
    /\ IR' = IF ram_read_ok(PC) THEN ram[PC] ELSE IR
    /\ op_a' = IF ram_read_ok(PC) /\ ram_read_ok(PC + 1) THEN ram[PC + 1]
               ELSE op_a
    /\ op_b' = IF ram_read_ok(PC) /\ ram_read_ok(PC + 1) /\ ram_read_ok(PC + 2)
               THEN ram[PC + 2]
               ELSE op_b
    /\ IF ram_read_ok(PC) /\ ram_read_ok(PC + 1) /\ ram_read_ok(PC + 2)
       THEN pos' = "test" /\ UNCHANGED << status, err >>
       ELSE pos' = "end" /\ status' = "ERROR" /\ err' = "IndexError"
    /\ UNCHANGED << reg, ram, PC, FL, out, obs >>

\* while self.IR != HLT: the loop ends and run() returns
Halt ==
    /\ pos = "test"
    /\ IR = HLT
    /\ status' = "HALTED"
    /\ pos' = "end"
    /\ UNCHANGED << reg, ram, PC, IR, op_a, op_b, FL, out, err, obs >>

\* self.branch[self.IR] raises KeyError, re-raised as Exception
Unsupported ==
    /\ pos = "test"
    /\ IR # HLT
    /\ IR \notin branch
    /\ status' = "ERROR"
    /\ err' = "Exception: Unsupported operation"
    /\ pos' = "end"
    /\ UNCHANGED << reg, ram, PC, IR, op_a, op_b, FL, out, obs >>

\* the handler's effect m, then PC += nums + 1 unless the opcode's bit 4 is set
Step(m) ==
    /\ reg' = m.reg
    /\ ram' = m.ram
    /\ FL' = m.FL
    /\ out' = m.out
    /\ IF Failed(m)
       THEN /\ PC' = m.PC
            /\ status' = "ERROR"
            /\ err' = m.err
            /\ pos' = "end"
       ELSE /\ PC' = IF pc_set(IR) = 0 THEN m.PC + nums(IR) + 1 ELSE m.PC
            /\ pos' = "fetch"
            /\ UNCHANGED << status, err >>
    /\ obs' = Observe(m)
    /\ UNCHANGED << IR, op_a, op_b >>

\* Inside the loop IR is never HLT, so the table's hlt entry is never called.
Dispatch(opcode) == pos = "test" /\ IR # HLT /\ IR = opcode

Ldi == Dispatch(LDI) /\ Step(ldi(Cur, op_a, op_b))
Prn == Dispatch(PRN) /\ Step(prn(Cur, op_a))
Pop == Dispatch(POP) /\ Step(pop(Cur, op_a))
Push == Dispatch(PUSH) /\ Step(push(Cur, op_a))
Call == Dispatch(CALL) /\ Step(call(Cur, op_a))
Ret == Dispatch(RET) /\ Step(ret(Cur))
Add == Dispatch(ADD) /\ Step(add(Cur, op_a, op_b))
Sub == Dispatch(SUB) /\ Step(sub(Cur, op_a, op_b))
Mul == Dispatch(MUL) /\ Step(mul(Cur, op_a, op_b))
Div == Dispatch(DIV) /\ Step(div(Cur, op_a, op_b))
Mod == Dispatch(MOD) /\ Step(mod(Cur, op_a, op_b))
Cmp == Dispatch(CMP) /\ Step(cmp(Cur, op_a, op_b))
Jmp == Dispatch(JMP) /\ Step(jmp(Cur, op_a))
Jeq == Dispatch(JEQ) /\ Step(jeq(Cur, op_a))
Jne == Dispatch(JNE) /\ Step(jne(Cur, op_a))
AndBit == Dispatch(AND) /\ Step(and_bit(Cur, op_a, op_b))
OrBit == Dispatch(OR) /\ Step(or_bit(Cur, op_a, op_b))
Xor == Dispatch(XOR) /\ Step(xor(Cur, op_a, op_b))
NotBit == Dispatch(NOT) /\ Step(not_bit(Cur, op_a))
Shl == Dispatch(SHL) /\ Step(shl(Cur, op_a, op_b))
Shr == Dispatch(SHR) /\ Step(shr(Cur, op_a, op_b))

Next ==
    \/ Load
    \/ Fetch
    \/ Halt
    \/ Unsupported
    \/ Ldi
    \/ Prn
    \/ Pop
    \/ Push
    \/ Call
    \/ Ret
    \/ Add
    \/ Sub
    \/ Mul
    \/ Div
    \/ Mod
    \/ Cmp
    \/ Jmp
    \/ Jeq
    \/ Jne
    \/ AndBit
    \/ OrBit
    \/ Xor
    \/ NotBit
    \/ Shl
    \/ Shr

Spec == Init /\ [][Next]_vars

TypeOK ==
    /\ reg \in [RegIdx -> Byte]
    /\ ram \in [Addr -> Byte]
    /\ PC \in Nat
    /\ FL \in {0, 1, 2, 4}
    /\ status \in {"NEW", "RUNNING", "HALTED", "ERROR"}

\* ------------------------------------------------------------------ claims
\* The instruction op is the last thing the machine did: it completed and
\* the next fetch has not happened, or it raised and the run ended there.
JustRan(op) ==
    /\ obs.last.ir = op
    /\ IF obs.last.ok THEN pos = "fetch" ELSE pos = "end" /\ status = "ERROR"

Arith(op, x, y) ==
    CASE op = ADD -> x + y
      [] op = SUB -> x - y
      [] op = MUL -> x * y

\* C1: ADD, SUB and MUL on two distinct registers holding a and b complete
\* without error and leave the first register holding the result mod 256.
C1_ArithmeticWraps ==
    \A op \in {ADD, SUB, MUL} :
        ( /\ JustRan(op)
          /\ obs.last.a \in RegIdx
          /\ obs.last.b \in RegIdx
          /\ obs.last.a # obs.last.b )
        => /\ status # "ERROR"
           /\ reg[obs.last.a]
                = Arith(op, obs.last.reg[obs.last.a], obs.last.reg[obs.last.b])
                    % ByteLimit

\* C2: after CALL r, with r in 0..7 and the stack inside memory, PC is the
\* value register r held just before the CALL.
C2_CallTarget ==
    ( /\ JustRan(CALL)
      /\ obs.last.ok
      /\ obs.last.a \in RegIdx )
    => PC = obs.last.reg[obs.last.a]

\* Some instruction is the last thing the machine did.
JustRanAny ==
    /\ obs.last.ir # 0 - 1
    /\ IF obs.last.ok THEN pos = "fetch" ELSE pos = "end" /\ status = "ERROR"

\* C3: when CALL r runs at address p and the address held in r contains a
\* RET, the next instruction to run is that RET, and after it PC is p + 2
\* and the stack pointer is what it was before the CALL.
C3_CallRetRoundTrip ==
    ( /\ JustRanAny
      /\ obs.before.ir = CALL
      /\ obs.before.ok
      /\ obs.before.a \in RegIdx
      /\ obs.before.cell = RET )
    => /\ obs.last.ir = RET
       /\ obs.last.ok
       /\ PC = obs.before.pc + 2
       /\ reg[SP] = obs.before.reg[SP]

\* C4: after PUSH r1, ..., PUSH rn and then POP rn, ..., POP r1, with nothing
\* in between, every register and the stack pointer hold what they held
\* before the first push.
C4_PushPopSymmetry == obs.balanced => reg = obs.base

C4_Witness ==
    /\ obs.balanced
    /\ obs.depth >= 2
    /\ pos = "fetch"
    /\ obs.last.a = SP
    /\ obs.base[0] # obs.base[1]

\* C5: a HLT byte fetched at any PC in 0..255 ends the run HALTED, with no
\* error and with the registers, the memory, the flags and PC unchanged.
C5_HaltOnFetch ==
    [][ /\ ( pos = "fetch" /\ PC \in Addr /\ ram[PC] = HLT )
           => /\ pos' = "test"
              /\ IR' = HLT
              /\ status' = "RUNNING"
              /\ err' = "none"
              /\ UNCHANGED << reg, ram, FL, PC >>
        /\ ( pos = "test" /\ IR = HLT )
           => /\ status' = "HALTED"
              /\ err' = "none"
              /\ UNCHANGED << reg, ram, FL, PC >> ]_vars

\* the equal bit of FL is bit 0
EqualBit(fl) == fl % 2

\* C6: JEQ r sets PC to register r when the equal bit of FL is set and else
\* adds 2 to PC; JNE r sets PC to register r when the equal bit is clear and
\* else adds 2 to PC; right after CMP on registers holding 3 and 5, JEQ
\* falls through and JNE jumps.
C6_CondJumps ==
    /\ \A j \in {JEQ, JNE} :
        JustRan(j) =>
            LET taken == (j = JEQ) <=> (EqualBit(obs.last.fl) = 1)
            IN  /\ ( taken /\ obs.last.a \in RegIdx )
                    => obs.last.ok /\ PC = obs.last.reg[obs.last.a]
                /\ ~taken => obs.last.ok /\ PC = obs.last.pc + 2
    /\ \A j \in {JEQ, JNE} :
        ( /\ JustRan(j)
          /\ obs.before.ir = CMP
          /\ obs.before.ok
          /\ obs.before.reg[obs.before.a] = 3
          /\ obs.before.reg[obs.before.b] = 5
          /\ obs.last.a \in RegIdx )
        => PC = IF j = JEQ THEN obs.last.pc + 2 ELSE obs.last.reg[obs.last.a]

C6_Witness ==
    /\ JustRan(JEQ)
    /\ obs.before.ir = CMP
    /\ obs.before.ok
    /\ obs.before.reg[obs.before.a] = 3
    /\ obs.before.reg[obs.before.b] = 5
    /\ PC = obs.last.pc + 2
    /\ PC # obs.last.reg[obs.last.a]

\* C7: CMP ra,rb sets FL to exactly one of less (4), greater (2), equal (1),
\* by the three-way comparison of the two registers, and changes no register.
C7_CmpFlags ==
    ( /\ JustRan(CMP)
      /\ obs.last.a \in RegIdx
      /\ obs.last.b \in RegIdx )
    => LET x == obs.last.reg[obs.last.a]
           y == obs.last.reg[obs.last.b]
       IN  /\ obs.last.ok
           /\ FL = IF x < y THEN 4 ELSE IF x > y THEN 2 ELSE 1
           /\ reg = obs.last.reg

C7_Witness ==
    /\ JustRan(CMP)
    /\ obs.last.a \in RegIdx
    /\ obs.last.b \in RegIdx
    /\ obs.last.reg[obs.last.a] > obs.last.reg[obs.last.b]
    /\ obs.last.fl # FL
    /\ FL = 2

\* C8: a fetched byte that is neither HLT nor in the opcode table ends the
\* run in the decode error; no handler runs, and no register, memory cell,
\* flag or PC changes.
C8_DecodeError ==
    [][ /\ ( pos = "fetch" /\ PC \in Addr /\ ram[PC] \notin branch )
           => /\ pos' = "test"
              /\ IR' = ram[PC]
              /\ status' = "RUNNING"
              /\ err' = "none"
              /\ UNCHANGED << reg, ram, FL, PC, out >>
        /\ ( pos = "test" /\ IR \notin branch )
           => /\ status' = "ERROR"
              /\ err' = "Exception: Unsupported operation"
              /\ pos' = "end"
              /\ UNCHANGED << reg, ram, FL, PC, out >> ]_vars

ShiftLeft(x, n) == IF n >= 8 THEN 0 ELSE (x * Pow2(n)) % ByteLimit
ShiftRight(x, n) == IF n >= 8 THEN 0 ELSE x \div Pow2(n)

\* C9: SHL ra,rb completes and leaves ra holding reg[ra] shifted left by
\* reg[rb] bits, mod 256; SHR ra,rb leaves ra holding reg[ra] shifted right
\* by reg[rb] bits; rb, when another register, is unchanged.
C9_Shifts ==
    \A op \in {SHL, SHR} :
        ( /\ JustRan(op)
          /\ obs.last.a \in RegIdx
          /\ obs.last.b \in RegIdx )
        => LET x == obs.last.reg[obs.last.a]
               n == obs.last.reg[obs.last.b]
           IN  /\ obs.last.ok
               /\ reg[obs.last.a]
                    = IF op = SHL THEN ShiftLeft(x, n) ELSE ShiftRight(x, n)
               /\ obs.last.a # obs.last.b => reg[obs.last.b] = n

\* C10: NOT r completes, leaves r holding 255 - v, leaves the other registers
\* unchanged, and PC advances by 2.
C10_Not ==
    ( JustRan(NOT) /\ obs.last.a \in RegIdx )
    => /\ obs.last.ok
       /\ reg = [obs.last.reg EXCEPT
                    ![obs.last.a] = (ByteLimit - 1) - obs.last.reg[obs.last.a]]
       /\ PC = obs.last.pc + 2

\* C11: CALL keeps the return address in register 6 and RET pops into
\* register 6, so across a CALL or a RET registers 0..5 keep their values.
C11_BookkeepingRegister ==
    \A op \in {CALL, RET} :
        ( JustRan(op) /\ obs.last.ok )
        => /\ \A i \in 0 .. 5 : reg[i] = obs.last.reg[i]
           /\ op = CALL => reg[6] = obs.last.pc + 2
           /\ op = RET => reg[6] = PC

\* The steps of run(): everything but the loading of the program.
RunStep ==
    \/ Fetch \/ Halt \/ Unsupported
    \/ Ldi \/ Prn \/ Pop \/ Push \/ Call \/ Ret
    \/ Add \/ Sub \/ Mul \/ Div \/ Mod \/ Cmp
    \/ Jmp \/ Jeq \/ Jne
    \/ AndBit \/ OrBit \/ Xor \/ NotBit \/ Shl \/ Shr

\* run() is one sequential loop with nothing to wait for: as long as it can
\* take a step it takes one.
FairSpec == Spec /\ WF_vars(RunStep)

PrintEight == << LDI, 0, 8, PRN, 0, HLT >>
PrintProduct == << LDI, 0, 5, LDI, 1, 6, MUL, 0, 1, PRN, 0, HLT >>

\* memory right after load(program) on the machine as constructed
Image(program) ==
    [a \in Addr |-> IF a < Len(program) THEN program[a + 1] ELSE 0]

Started(program) ==
    /\ pos = "fetch"
    /\ PC = 0
    /\ obs.last.ir = 0 - 1
    /\ ram = Image(program)

\* C12: from the initial machine, LDI R0,8; PRN R0; HLT reaches HALTED with
\* output <<8>>, and LDI R0,5; LDI R1,6; MUL R0,R1; PRN R0; HLT reaches HALTED
\* with output <<30>>; neither run reaches an error.
C12_EndToEnd ==
    /\ Started(PrintEight) ~> (status = "HALTED" /\ out = << 8 >>)
    /\ Started(PrintProduct) ~> (status = "HALTED" /\ out = << 30 >>)
    /\ [](ram \in {Image(PrintEight), Image(PrintProduct)}
            => status # "ERROR")
    /\ [](ram = Image(PrintEight) => out \in {<< >>, << 8 >>})
    /\ [](ram = Image(PrintProduct) => out \in {<< >>, << 30 >>})

C12_Witness ==
    /\ status = "HALTED"
    /\ ram = Image(PrintProduct)
    /\ out = << 30 >>
    /\ reg[0] = 30

\* C13: LDI r,v with r in 0..7 leaves register r holding v mod 256 and every
\* other register, all memory and the flags unchanged.
C13_LoadImmediate ==
    [][ ( pos = "test" /\ IR = LDI /\ op_a \in RegIdx )
        => /\ reg' = [reg EXCEPT ![op_a] = op_b % ByteLimit]
           /\ ram' = ram
           /\ FL' = FL
           /\ status' = "RUNNING" ]_vars

C13_Witness ==
    /\ JustRan(LDI)
    /\ obs.last.ok
    /\ obs.last.a = SP
    /\ obs.last.b = 255
    /\ reg[SP] = 255
    /\ obs.last.reg[SP] = SPInit

\* C14: no dispatch of a table opcode reaches the final else branch of
\* alu(), the "Unsupported ALU operation" error.
C14_AluFallbackUnreachable ==
    err # "Exception: Unsupported ALU operation"

\* C15: PC is a memory index, 0..255, in every reachable state.
C15_PCInMemory == PC \in Addr

\* the table's instructions whose bit 4 is 0 (HLT is never dispatched), and
\* those whose bit 4 is 1
Sequential ==
    {LDI, PRN, PUSH, POP, ADD, SUB, MUL, DIV, MOD, CMP, AND, OR, XOR, SHL,
     SHR, NOT}
Control == {CALL, RET, JMP, JEQ, JNE}

\* C16: an instruction with bit 4 clear that completes leaves PC at PC +
\* (bits 6-7 of the opcode) + 1; after an instruction with bit 4 set the
\* dispatcher adds nothing and PC is what the handler set.
C16_PCAdvance ==
    [][ ( pos = "test" /\ IR # HLT /\ pos' = "fetch" )
        => /\ IR \in Sequential => PC' = PC + (IR \div 64) + 1
           /\ IR \in {CALL, JMP} => PC' = reg'[op_a]
           /\ IR = RET => PC' = reg'[4]
           /\ IR = JEQ => PC' = IF FL = 1 THEN reg[op_a] ELSE PC + 2
           /\ IR = JNE => PC' = IF FL # 1 THEN reg[op_a] ELSE PC + 2 ]_vars

C16_Witness ==
    /\ JustRan(MUL)
    /\ obs.last.ok
    /\ PC = obs.last.pc + 3
    /\ obs.before.ir = LDI
    /\ obs.before.pc + 3 = obs.last.pc

\* C17: FL is 0 at construction and only CMP changes it: every other
\* instruction, and every other step of the machine, leaves FL as it was,
\* whether the instruction completes or raises.
C17_FlagsOnlyByCmp ==
    /\ FL = 0
    /\ [][ FL' # FL => ( pos = "test" /\ IR = CMP ) ]_vars

C17_Witness ==
    /\ JustRan(JNE)
    /\ obs.before.ir = CMP
    /\ obs.last.fl = 4
    /\ FL = 4

\* C18: DIV and MOD on registers ra, rb raise when rb holds 0, and then the
\* registers, the memory, the flags and PC are what they were; with rb
\* nonzero they complete and ra holds the floored quotient or the remainder.
C18_DivModByZero ==
    [][ ( /\ pos = "test"
          /\ IR \in {DIV, MOD}
          /\ op_a \in RegIdx
          /\ op_b \in RegIdx )
        => IF reg[op_b] = 0
           THEN /\ status' = "ERROR"
                /\ pos' = "end"
                /\ UNCHANGED << reg, ram, FL, PC >>
           ELSE /\ status' = "RUNNING"
                /\ reg' = [reg EXCEPT ![op_a] =
                              IF IR = DIV THEN reg[op_a] \div reg[op_b]
                              ELSE reg[op_a] % reg[op_b]] ]_vars

C18_Witness ==
    /\ JustRan(DIV)
    /\ ~obs.last.ok
    /\ err = "ZeroDivisionError"
    /\ obs.last.reg[obs.last.a] = 255
    /\ obs.last.reg[obs.last.b] = 0
    /\ reg = obs.last.reg

\* every register and every memory cell holds a byte
ByteRange ==
    /\ \A i \in RegIdx : reg[i] \in Byte
    /\ \A a \in Addr : ram[a] \in Byte
    /\ reg[SP] \in Addr

\* C19 as stated: the registers and the memory hold bytes, so the stack
\* pointer is an address; a PUSH that completes leaves the stack pointer one
\* below, and a POP that completes one above, what it was.
C19_ByteRangeAndStackPointer ==
    /\ ByteRange
    /\ ( JustRan(PUSH) /\ obs.last.ok ) => reg[SP] = obs.last.reg[SP] - 1
    /\ ( JustRan(POP) /\ obs.last.ok ) => reg[SP] = obs.last.reg[SP] + 1

\* C19 amended: as stated for POP into registers 0..6; a POP into register
\* 7 that completes leaves the stack pointer one above the byte it popped.
C19_Amended ==
    /\ ByteRange
    /\ ( JustRan(PUSH) /\ obs.last.ok ) => reg[SP] = obs.last.reg[SP] - 1
    /\ ( JustRan(POP) /\ obs.last.ok /\ obs.last.a # SP )
       => reg[SP] = obs.last.reg[SP] + 1
    /\ ( JustRan(POP) /\ obs.last.ok /\ obs.last.a = SP )
       => reg[SP] = obs.last.cell + 1

C19_Witness ==
    /\ JustRan(POP)
    /\ obs.last.ok
    /\ obs.last.a = SP
    /\ obs.last.reg[SP] = SPInit
    /\ obs.last.cell = 0
    /\ reg[SP] = 1

\* C20 as stated: PUSH with the stack pointer at 0 and POP with the stack
\* pointer at 255 raise, and leave every register and every memory cell as
\* it was.
C20_StackFaultAtomic ==
    [][ ( /\ pos = "test"
          /\ \/ IR = PUSH /\ reg[SP] = 0
             \/ IR = POP /\ reg[SP] = 255 )
        => /\ status' = "ERROR"
           /\ UNCHANGED << reg, ram >> ]_vars

\* C20 amended: PUSH with the stack pointer at 0 raises and changes nothing;
\* POP r with the stack pointer at 255 and r not 7 raises with the memory,
\* the stack pointer and every register but r as they were, and r (when it
\* is a register) holding the byte at address 255.
C20_Amended ==
    [][ /\ ( pos = "test" /\ IR = PUSH /\ reg[SP] = 0 )
           => /\ status' = "ERROR"
              /\ UNCHANGED << reg, ram >>
        /\ ( pos = "test" /\ IR = POP /\ reg[SP] = 255 /\ op_a # SP )
           => /\ status' = "ERROR"
              /\ ram' = ram
              /\ \A i \in RegIdx \ {op_a} : reg'[i] = reg[i]
              /\ op_a \in RegIdx => reg'[op_a] = ram[255] ]_vars

C20_Witness ==
    /\ JustRan(POP)
    /\ ~obs.last.ok
    /\ err = "ValueError"
    /\ obs.last.a = 0
    /\ obs.last.reg[SP] = 255
    /\ obs.last.reg[0] = 5
    /\ reg[0] = 0
    /\ reg[SP] = 255

====
